---- MODULE Spec2Model ----
(***************************************************************************)
(* Room session engine of the mafia server: LobbyGateway (room registry,   *)
(* membership, start, vote), PhaseService (night/day timers), Voting-      *)
(* Service (ledger, resolve), WinService (win evaluator).                  *)
(*                                                                         *)
(* Every handler and every timer callback runs to completion on the one    *)
(* event loop, so each is a single action.  A pending setTimeout is an     *)
(* element of `timers` and carries the delay it was armed with.  Spec is   *)
(* independent of the delays: a pending timer may fire at any moment, so   *)
(* Spec covers every setting of the three durations, the 30 s / 3 s / 6 s  *)
(* of the source included.  With those three values the day's phase timer  *)
(* (6 s) is due before the discussion sub-timer (30 s); behaviours of Spec *)
(* in which the sub-timer fires during the day are those of a discussion   *)
(* window shorter than the day.                                            *)
(*                                                                         *)
(* Three specifications share the handlers and callbacks.  Spec is the     *)
(* whole gateway from an empty registry.  SpecLobby is one room from its   *)
(* creation by socket 1, with joins and leaves only.  SpecGame is one room *)
(* of up to MaxPlayers members, started, voted in and driven by its        *)
(* timers: it has the games of four and five in which a dead member sits   *)
(* through a voting stage.                                                 *)
(*                                                                         *)
(* resolveDay emits the string VotingService.resolve returns, so the       *)
(* resolve it calls is the revision that applies the elimination and       *)
(* returns the narration; the revision that returns the identity is        *)
(* VotingServiceResolvePure.                                               *)
(***************************************************************************)
EXTENDS Integers, Sequences, FiniteSets, TLC

VARIABLES
    rooms,      \* RoomManager.rooms: the Map as a sequence in insertion order
    timers,     \* pending setTimeout callbacks
    emitted,    \* what the last handler or callback sent through server/client emit
    cleared     \* the pending timers the last handler or callback cancelled

vars == <<rooms, timers, emitted, cleared>>

----------------------------------------------------------------------------
(* Bounds *)

NumSockets == 3     \* client.id ranges over 1..NumSockets
NumNames == 2       \* payload.username / payload.target range over Names
MaxRooms == 2       \* rooms simultaneously in the registry
MaxRoomsInGame == 1 \* rooms in the registry while one of them has left the lobby
MaxMembers == 3     \* memberships in the registry, summed over its rooms
MaxPlayers == 5     \* SpecGame: members of the one room; client.id ranges over 1..MaxPlayers
MaxVotes == 3       \* SpecGame: entries of a ledger

Sockets == 1..NumSockets
Names == 1..NumNames
RoomIds == 1..MaxRooms
TimerIds == 1..(2 * MaxRooms + 2)
GameSockets == 1..MaxPlayers

----------------------------------------------------------------------------
(* Optional fields of Room and Player *)

Undefined == "undefined"
NoName == 0
NoTimer == 0
NoSocket == 0
UndefinedVotes == [present |-> FALSE, map |-> <<>>]
NewMap == [present |-> TRUE, map |-> <<>>]

NightMs == 3000
DayMs == 6000
DiscussionMs == 30000

----------------------------------------------------------------------------
(* Map helpers: a JS Map is a sequence of entries in insertion order *)

PlayerIndex(players, socketId) ==
    IF \E k \in 1..Len(players) : players[k].socketId = socketId
    THEN CHOOSE k \in 1..Len(players) : players[k].socketId = socketId
    ELSE 0

PlayersHas(players, socketId) == PlayerIndex(players, socketId) # 0

PlayersSet(players, socketId, player) ==
    IF PlayersHas(players, socketId)
    THEN [players EXCEPT ![PlayerIndex(players, socketId)] = player]
    ELSE Append(players, player)

PlayersDelete(players, socketId) ==
    SelectSeq(players, LAMBDA p : p.socketId # socketId)

----------------------------------------------------------------------------
(* RoomManager *)

RoomManagerGet(rms, roomId) ==
    IF \E k \in 1..Len(rms) : rms[k].id = roomId
    THEN CHOOSE k \in 1..Len(rms) : rms[k].id = roomId
    ELSE 0

RoomManagerSet(rms, room) ==
    IF RoomManagerGet(rms, room.id) # 0
    THEN [rms EXCEPT ![RoomManagerGet(rms, room.id)] = room]
    ELSE Append(rms, room)

\* a slip: delete that removes nothing
RoomManagerDeleteNothing(rms, roomId) == rms

RoomManagerDelete(rms, roomId) ==
    SelectSeq(rms, LAMBDA r : r.id # roomId)

\* first room, in the registry's iteration order, that has the socket as a key
findBySocket(rms, socketId) ==
    IF \E k \in 1..Len(rms) : PlayersHas(rms[k].players, socketId)
    THEN CHOOSE k \in 1..Len(rms) :
            /\ PlayersHas(rms[k].players, socketId)
            /\ \A j \in 1..(k - 1) : ~PlayersHas(rms[j].players, socketId)
    ELSE 0

\* generateRoomId: an identifier no room of the registry has
FreeRoomIds(rms) == RoomIds \ {rms[k].id : k \in 1..Len(rms)}

----------------------------------------------------------------------------
(* Emits *)

RoomStatePayload(room) ==
    [type |-> "room_state", roomId |-> room.id, phase |-> room.phase,
     dayStage |-> room.dayStage,
     players |-> [k \in 1..Len(room.players) |->
                    [username |-> room.players[k].username,
                     isHost |-> room.players[k].socketId = room.hostSocketId]]]

\* emitRoomState(roomId): nothing is sent for a room the registry does not hold
emitRoomState(rms, roomId) ==
    IF RoomManagerGet(rms, roomId) = 0 THEN <<>>
    ELSE <<RoomStatePayload(rms[RoomManagerGet(rms, roomId)])>>

emitSystem(roomId, text, subject) ==
    <<[type |-> "system_message", roomId |-> roomId, text |-> text, subject |-> subject]>>

emitRoomJoined(socketId, roomId) ==
    <<[type |-> "room_joined", to |-> socketId, roomId |-> roomId]>>

emitRoles(room) ==
    [k \in 1..Len(room.players) |->
        [type |-> "role_assigned", to |-> room.players[k].socketId,
         role |-> room.players[k].role]]

----------------------------------------------------------------------------
(* Result of running a handler: the new registry, the new pending timers and
   the notifications it sent *)

Result(rms, tmrs, out) == [rooms |-> rms, timers |-> tmrs, emitted |-> out]

Dropped(rms, tmrs) == Result(rms, tmrs, <<>>)

NewPlayer(socketId, username) ==
    [socketId |-> socketId, username |-> username, role |-> Undefined, alive |-> TRUE]

----------------------------------------------------------------------------
(* Timers: setTimeout / clearTimeout *)

\* handles held by a room field or still pending; a new Timeout is none of them
UsedTimerIds(rms, tmrs) ==
    {t.id : t \in tmrs}
    \cup {rms[k].timer : k \in 1..Len(rms)}
    \cup {rms[k].dayStageTimer : k \in 1..Len(rms)}

FreshTimerId(rms, tmrs) ==
    CHOOSE n \in TimerIds :
        /\ n \notin UsedTimerIds(rms, tmrs)
        /\ \A m \in TimerIds : m < n => m \in UsedTimerIds(rms, tmrs)

\* clearTimeout(handle): a no-op for undefined, fired or already cleared handles
ClearTimeout(tmrs, handle) == {t \in tmrs : t.id # handle}

Timeout(id, roomId, kind, phase, delay) ==
    [id |-> id, room |-> roomId, kind |-> kind, phase |-> phase, delay |-> delay]

----------------------------------------------------------------------------
(* WinService.check *)

Team(role) ==
    IF role = "mafia" THEN "mafia"
    ELSE IF role = Undefined THEN Undefined
    ELSE "town"

\* a slip: a strict majority instead of parity
WinServiceCheckStrict(room) ==
    LET alive == SelectSeq(room.players, LAMBDA p : p.alive)
        mafia == Len(SelectSeq(alive, LAMBDA p : Team(p.role) = "mafia"))
        town == Len(alive) - mafia
    IN IF mafia = 0 THEN "town"
       ELSE IF mafia > town THEN "mafia"
       ELSE "null"

WinServiceCheck(room) ==
    LET alive == SelectSeq(room.players, LAMBDA p : p.alive)
        mafia == Len(SelectSeq(alive, LAMBDA p : Team(p.role) = "mafia"))
        town == Len(alive) - mafia
    IN IF mafia = 0 THEN "town"
       ELSE IF mafia >= town THEN "mafia"
       ELSE "null"

----------------------------------------------------------------------------
(* VotingService *)

\* a slip: set() that adds an entry instead of replacing the voter's
VotingServiceVoteAppend(room, voterId, targetId) ==
    LET votes == IF room.votes.present THEN room.votes ELSE NewMap
    IN [room EXCEPT !.votes =
            [present |-> TRUE,
             map |-> Append(votes.map, [voter |-> voterId, target |-> targetId])]]

\* room.votes ??= new Map(); room.votes.set(voterId, targetId)
VotingServiceVote(room, voterId, targetId) ==
    LET votes == IF room.votes.present THEN room.votes ELSE NewMap
        k == IF \E j \in 1..Len(votes.map) : votes.map[j].voter = voterId
             THEN CHOOSE j \in 1..Len(votes.map) : votes.map[j].voter = voterId
             ELSE 0
        entry == [voter |-> voterId, target |-> targetId]
    IN [room EXCEPT !.votes =
            [present |-> TRUE,
             map |-> IF k # 0 THEN [votes.map EXCEPT ![k] = entry]
                     ELSE Append(votes.map, entry)]]

\* counts: target -> number of votes, keys in order of first appearance
RECURSIVE CountVotes(_, _)
CountVotes(map, k) ==
    IF k = 0 THEN <<>>
    ELSE LET prev == CountVotes(map, k - 1)
             id == map[k].target
         IN IF \E j \in 1..Len(prev) : prev[j].id = id
            THEN [j \in 1..Len(prev) |->
                    IF prev[j].id = id
                    THEN [id |-> id, n |-> prev[j].n + 1]
                    ELSE prev[j]]
            ELSE Append(prev, [id |-> id, n |-> 1])

\* [...counts.entries()].sort((a, b) => b[1] - a[1]): stable, descending by count
RECURSIVE SortDesc(_)
SortDesc(entries) ==
    IF Len(entries) <= 1 THEN entries
    ELSE LET rest == SortDesc(SubSeq(entries, 1, Len(entries) - 1))
             last == entries[Len(entries)]
             pos == Cardinality({j \in 1..Len(rest) : rest[j].n >= last.n})
         IN SubSeq(rest, 1, pos) \o <<last>> \o SubSeq(rest, pos + 1, Len(rest))

\* src/game/voting.service.ts: the eliminated identity, NoSocket for null
VotingServiceResolvePure(room) ==
    IF ~room.votes.present \/ Len(room.votes.map) = 0 THEN NoSocket
    ELSE LET sorted == SortDesc(CountVotes(room.votes.map, Len(room.votes.map)))
         IN IF Len(sorted) > 1 /\ sorted[1].n = sorted[2].n THEN NoSocket
            ELSE sorted[1].id

\* the revision that applies the elimination and returns the narration
VotingServiceResolve(room) ==
    IF ~room.votes.present \/ Len(room.votes.map) = 0
    THEN [room |-> room, text |-> "No votes cast. Nobody was eliminated.", subject |-> NoName]
    ELSE LET sorted == SortDesc(CountVotes(room.votes.map, Len(room.votes.map)))
         IN IF Len(sorted) > 1 /\ sorted[1].n = sorted[2].n
            THEN [room |-> room, text |-> "Vote tied. Nobody was eliminated.", subject |-> NoName]
            ELSE LET v == PlayerIndex(room.players, sorted[1].id)
                 IN IF v = 0
                    THEN [room |-> room, text |-> "null", subject |-> NoName]
                    ELSE [room |-> [room EXCEPT !.players[v].alive = FALSE],
                          text |-> "was eliminated",
                          subject |-> room.players[v].username]

----------------------------------------------------------------------------
(* PhaseService *)

SetRoom(rms, k, room) == [rms EXCEPT ![k] = room]

\* startPhase(room, phase, checkWin, onResolveDay, onStateChange), up to and
\* including the two setTimeout calls; k is the room's place in the registry
startPhase(rms, tmrs, k, phase) ==
    LET room0 == rms[k]
        tmrs1 == ClearTimeout(ClearTimeout(tmrs, room0.timer), room0.dayStageTimer)
        room1 == [room0 EXCEPT !.timer = NoTimer, !.dayStageTimer = NoTimer,
                               !.phase = phase]
        out1 == emitRoomState(SetRoom(rms, k, room1), room1.id)
        room2 == IF phase = "day"
                 THEN [room1 EXCEPT !.dayStage = "discussion", !.votes = UndefinedVotes]
                 ELSE [room1 EXCEPT !.dayStage = Undefined, !.votes = UndefinedVotes]
        out2 == out1 \o emitRoomState(SetRoom(rms, k, room2), room2.id)
        id3 == FreshTimerId(SetRoom(rms, k, room2), tmrs1)
        room3 == IF phase = "day" THEN [room2 EXCEPT !.dayStageTimer = id3] ELSE room2
        tmrs3 == IF phase = "day"
                 THEN tmrs1 \cup {Timeout(id3, room2.id, "dayStage", phase, DiscussionMs)}
                 ELSE tmrs1
        id4 == FreshTimerId(SetRoom(rms, k, room3), tmrs3)
        room4 == [room3 EXCEPT !.timer = id4]
        tmrs4 == tmrs3 \cup {Timeout(id4, room3.id, "phase", phase,
                                     IF phase = "night" THEN NightMs ELSE DayMs)}
    IN Result(SetRoom(rms, k, room4), tmrs4, out2)

\* a slip: the callback without its check that the room is still in day
DayStageTimerCallbackUnguarded(rms, tmrs, k) ==
    LET room1 == [rms[k] EXCEPT !.dayStage = "voting", !.votes = NewMap]
        rms1 == SetRoom(rms, k, room1)
    IN Result(rms1, tmrs, emitRoomState(rms1, room1.id))

\* the callback of room.dayStageTimer
DayStageTimerCallback(rms, tmrs, k) ==
    IF rms[k].phase # "day" THEN Dropped(rms, tmrs)
    ELSE LET room1 == [rms[k] EXCEPT !.dayStage = "voting", !.votes = NewMap]
             rms1 == SetRoom(rms, k, room1)
         IN Result(rms1, tmrs, emitRoomState(rms1, room1.id))

\* LobbyGateway.resolveDay, the onResolveDay argument of startPhase
resolveDay(rms, tmrs, k) ==
    LET res == VotingServiceResolve(rms[k])
        rms1 == SetRoom(rms, k, res.room)
    IN Result(rms1, tmrs,
              (IF res.text # "null" THEN emitSystem(res.room.id, res.text, res.subject)
               ELSE <<>>)
              \o emitRoomState(rms1, res.room.id))

\* a slip: the win condition read before the day's votes are resolved
PhaseTimerCallbackWinFirst(rms, tmrs, k, phase) ==
    LET winner == WinServiceCheck(rms[k])
        r1 == IF phase = "day"
              THEN LET rd == resolveDay(rms, tmrs, k)
                   IN Result(rd.rooms, rd.timers,
                             rd.emitted \o emitRoomState(rd.rooms, rd.rooms[k].id))
              ELSE Dropped(rms, tmrs)
    IN IF winner # "null"
       THEN LET room2 == [r1.rooms[k] EXCEPT !.phase = "ended", !.winner = winner]
                rms2 == SetRoom(r1.rooms, k, room2)
            IN Result(rms2, r1.timers, r1.emitted \o emitRoomState(rms2, room2.id))
       ELSE LET nextPhase == IF phase = "night" THEN "day" ELSE "night"
                r3 == startPhase(r1.rooms, r1.timers, k, nextPhase)
            IN Result(r3.rooms, r3.timers, r1.emitted \o r3.emitted)

\* a slip: the win condition read only at the end of a day
PhaseTimerCallbackDayOnlyWin(rms, tmrs, k, phase) ==
    LET r1 == IF phase = "day"
              THEN LET rd == resolveDay(rms, tmrs, k)
                   IN Result(rd.rooms, rd.timers,
                             rd.emitted \o emitRoomState(rd.rooms, rd.rooms[k].id))
              ELSE Dropped(rms, tmrs)
        winner == IF phase = "day" THEN WinServiceCheck(r1.rooms[k]) ELSE "null"
    IN IF winner # "null"
       THEN LET room2 == [r1.rooms[k] EXCEPT !.phase = "ended", !.winner = winner]
                rms2 == SetRoom(r1.rooms, k, room2)
            IN Result(rms2, r1.timers, r1.emitted \o emitRoomState(rms2, room2.id))
       ELSE LET nextPhase == IF phase = "night" THEN "day" ELSE "night"
                r3 == startPhase(r1.rooms, r1.timers, k, nextPhase)
            IN Result(r3.rooms, r3.timers, r1.emitted \o r3.emitted)

\* the callback of room.timer armed by startPhase(room, phase, ...)
PhaseTimerCallback(rms, tmrs, k, phase) ==
    LET r1 == IF phase = "day"
              THEN LET rd == resolveDay(rms, tmrs, k)
                   IN Result(rd.rooms, rd.timers,
                             rd.emitted \o emitRoomState(rd.rooms, rd.rooms[k].id))
              ELSE Dropped(rms, tmrs)
        winner == WinServiceCheck(r1.rooms[k])
    IN IF winner # "null"
       THEN LET room2 == [r1.rooms[k] EXCEPT !.phase = "ended", !.winner = winner]
                rms2 == SetRoom(r1.rooms, k, room2)
            IN Result(rms2, r1.timers, r1.emitted \o emitRoomState(rms2, room2.id))
       ELSE LET nextPhase == IF phase = "night" THEN "day" ELSE "night"
                r3 == startPhase(r1.rooms, r1.timers, k, nextPhase)
            IN Result(r3.rooms, r3.timers, r1.emitted \o r3.emitted)

\* a slip: end(room, winner) without the two clearTimeout calls
PhaseServiceEndNoClear(room, tmrs, winner) ==
    [room |-> [room EXCEPT !.timer = NoTimer, !.dayStageTimer = NoTimer,
                           !.phase = "ended", !.winner = winner,
                           !.players = [j \in 1..Len(room.players) |->
                                          [room.players[j] EXCEPT !.role = Undefined]]],
     timers |-> tmrs]

\* end(room, winner)
PhaseServiceEnd(room, tmrs, winner) ==
    [room |-> [room EXCEPT !.timer = NoTimer, !.dayStageTimer = NoTimer,
                           !.phase = "ended", !.winner = winner,
                           !.players = [j \in 1..Len(room.players) |->
                                          [room.players[j] EXCEPT !.role = Undefined]]],
     timers |-> ClearTimeout(ClearTimeout(tmrs, room.timer), room.dayStageTimer)]

----------------------------------------------------------------------------
(* LobbyGateway.handleCreateRoom *)

handleCreateRoom(rms, tmrs, client, username, roomId) ==
    LET room == [id |-> roomId,
                 players |-> <<NewPlayer(client, username)>>,
                 hostSocketId |-> client,
                 phase |-> "lobby",
                 dayStage |-> Undefined,
                 timer |-> NoTimer,
                 dayStageTimer |-> NoTimer,
                 winner |-> Undefined,
                 votes |-> UndefinedVotes]
        rms1 == RoomManagerSet(rms, room)
    IN Result(rms1, tmrs,
              emitRoomJoined(client, roomId)
              \o emitRoomState(rms1, roomId)
              \o emitSystem(roomId, "created the room", username))

----------------------------------------------------------------------------
(* LobbyGateway.handleJoinRoom *)

\* a slip: join_room without the check that the room is still in the lobby
handleJoinRoomAnyPhase(rms, tmrs, client, roomId, username) ==
    LET k == RoomManagerGet(rms, roomId)
    IN IF k = 0 THEN Dropped(rms, tmrs)
       ELSE LET room1 == [rms[k] EXCEPT !.players =
                            PlayersSet(rms[k].players, client, NewPlayer(client, username))]
                rms1 == SetRoom(rms, k, room1)
            IN Result(rms1, tmrs,
                      emitRoomJoined(client, roomId)
                      \o emitRoomState(rms1, roomId)
                      \o emitSystem(roomId, "joined the lobby", username))

handleJoinRoom(rms, tmrs, client, roomId, username) ==
    LET k == RoomManagerGet(rms, roomId)
    IN IF k = 0 THEN Dropped(rms, tmrs)
       ELSE IF rms[k].phase # "lobby" THEN Dropped(rms, tmrs)
       ELSE LET room1 == [rms[k] EXCEPT !.players =
                            PlayersSet(rms[k].players, client, NewPlayer(client, username))]
                rms1 == SetRoom(rms, k, room1)
            IN Result(rms1, tmrs,
                      emitRoomJoined(client, roomId)
                      \o emitRoomState(rms1, roomId)
                      \o emitSystem(roomId, "joined the lobby", username))

----------------------------------------------------------------------------
(* LobbyGateway.handleLeaveRoom *)

\* a slip: leave_room that keeps the host identity of a host who left
handleLeaveRoomKeepHost(rms, tmrs, client) ==
    LET k == findBySocket(rms, client)
    IN IF k = 0 THEN Dropped(rms, tmrs)
       ELSE LET player == rms[k].players[PlayerIndex(rms[k].players, client)]
                room2 == [rms[k] EXCEPT !.players = PlayersDelete(rms[k].players, client)]
            IN IF Len(room2.players) = 0
               THEN LET ended == PhaseServiceEnd(room2, tmrs,
                                    IF room2.winner # Undefined THEN room2.winner
                                    ELSE "town")
                    IN Result(RoomManagerDelete(SetRoom(rms, k, ended.room), room2.id),
                              ended.timers, <<>>)
               ELSE LET rms2 == SetRoom(rms, k, room2)
                    IN Result(rms2, tmrs,
                              emitRoomState(rms2, room2.id)
                              \o emitSystem(room2.id, "left the lobby", player.username))

\* a slip: the host passes to the last remaining key instead of the first
handleLeaveRoomLastHost(rms, tmrs, client) ==
    LET k == findBySocket(rms, client)
    IN IF k = 0 THEN Dropped(rms, tmrs)
       ELSE LET player == rms[k].players[PlayerIndex(rms[k].players, client)]
                players1 == PlayersDelete(rms[k].players, client)
                room1 == [rms[k] EXCEPT !.players = players1]
                room2 == IF client = room1.hostSocketId
                         THEN [room1 EXCEPT !.hostSocketId =
                                  IF Len(players1) > 0 THEN players1[Len(players1)].socketId
                                  ELSE NoSocket]
                         ELSE room1
            IN IF Len(room2.players) = 0
               THEN LET ended == PhaseServiceEnd(room2, tmrs,
                                    IF room2.winner # Undefined THEN room2.winner
                                    ELSE "town")
                    IN Result(RoomManagerDelete(SetRoom(rms, k, ended.room), room2.id),
                              ended.timers, <<>>)
               ELSE LET rms2 == SetRoom(rms, k, room2)
                    IN Result(rms2, tmrs,
                              emitRoomState(rms2, room2.id)
                              \o emitSystem(room2.id, "left the lobby", player.username))

handleLeaveRoom(rms, tmrs, client) ==
    LET k == findBySocket(rms, client)
    IN IF k = 0 THEN Dropped(rms, tmrs)
       ELSE LET player == rms[k].players[PlayerIndex(rms[k].players, client)]
                players1 == PlayersDelete(rms[k].players, client)
                room1 == [rms[k] EXCEPT !.players = players1]
                room2 == IF client = room1.hostSocketId
                         THEN [room1 EXCEPT !.hostSocketId =
                                  IF Len(players1) > 0 THEN players1[1].socketId
                                  ELSE NoSocket]
                         ELSE room1
            IN IF Len(room2.players) = 0
               THEN LET ended == PhaseServiceEnd(room2, tmrs,
                                    IF room2.winner # Undefined THEN room2.winner
                                    ELSE "town")
                    IN Result(RoomManagerDelete(SetRoom(rms, k, ended.room), room2.id),
                              ended.timers, <<>>)
               ELSE LET rms2 == SetRoom(rms, k, room2)
                    IN Result(rms2, tmrs,
                              emitRoomState(rms2, room2.id)
                              \o emitSystem(room2.id, "left the lobby", player.username))

----------------------------------------------------------------------------
(* LobbyGateway.assignRoles; shuffle[j] is the place in room.players of the
   player that players.sort(() => Math.random() - 0.5) puts at index j - 1 *)

Shuffles(n) ==
    {f \in [1..n -> 1..n] : \A a, b \in 1..n : f[a] = f[b] => a = b}

Max(a, b) == IF a >= b THEN a ELSE b

RoleAtIndex(i, mafiaCount) ==
    IF i < mafiaCount THEN "mafia"
    ELSE IF i = mafiaCount THEN "detective"
    ELSE IF i = mafiaCount + 1 THEN "doctor"
    ELSE "citizen"

\* a slip: a draw that assigns nothing
assignRolesNone(room, shuffle) == room

assignRoles(room, shuffle) ==
    IF \E j \in 1..Len(room.players) : room.players[j].role # Undefined THEN room
    ELSE LET n == Len(room.players)
             mafiaCount == Max(1, n \div 4)
             indexOf(j) == CHOOSE i \in 0..(n - 1) : shuffle[i + 1] = j
         IN [room EXCEPT !.players =
                [j \in 1..n |->
                    [room.players[j] EXCEPT !.alive = TRUE,
                                            !.role = RoleAtIndex(indexOf(j), mafiaCount)]]]

----------------------------------------------------------------------------
(* LobbyGateway.handleStartGame *)

\* a slip: start_game without the check that the requester is the host
handleStartGameAnyMember(rms, tmrs, client, shuffle) ==
    LET k == findBySocket(rms, client)
    IN IF k = 0 THEN Dropped(rms, tmrs)
       ELSE IF rms[k].phase # "lobby" THEN Dropped(rms, tmrs)
       ELSE LET player == rms[k].players[PlayerIndex(rms[k].players, client)]
                room1 == assignRoles(rms[k], shuffle)
                started == startPhase(SetRoom(rms, k, room1), tmrs, k, "night")
            IN Result(started.rooms, started.timers,
                      emitRoles(room1)
                      \o emitSystem(room1.id, "started the game", player.username)
                      \o started.emitted
                      \o emitRoomState(started.rooms, room1.id))

handleStartGame(rms, tmrs, client, shuffle) ==
    LET k == findBySocket(rms, client)
    IN IF k = 0 THEN Dropped(rms, tmrs)
       ELSE IF rms[k].phase # "lobby" THEN Dropped(rms, tmrs)
       ELSE IF rms[k].hostSocketId # client THEN Dropped(rms, tmrs)
       ELSE LET player == rms[k].players[PlayerIndex(rms[k].players, client)]
                room1 == assignRoles(rms[k], shuffle)
                started == startPhase(SetRoom(rms, k, room1), tmrs, k, "night")
            IN Result(started.rooms, started.timers,
                      emitRoles(room1)
                      \o emitSystem(room1.id, "started the game", player.username)
                      \o started.emitted
                      \o emitRoomState(started.rooms, room1.id))

----------------------------------------------------------------------------
(* LobbyGateway.handleVote *)

\* a slip: find() without the p.alive conjunct
FindTargetAnyone(players, target) ==
    IF \E j \in 1..Len(players) : players[j].username = target
    THEN CHOOSE j \in 1..Len(players) :
            /\ players[j].username = target
            /\ \A i \in 1..(j - 1) : players[i].username # target
    ELSE 0

\* [...room.players.values()].find(p => p.username === target && p.alive)
FindTarget(players, target) ==
    IF \E j \in 1..Len(players) : players[j].username = target /\ players[j].alive
    THEN CHOOSE j \in 1..Len(players) :
            /\ players[j].username = target /\ players[j].alive
            /\ \A i \in 1..(j - 1) : ~(players[i].username = target /\ players[i].alive)
    ELSE 0

emitVoteState(room) ==
    IF ~room.votes.present THEN <<>>
    ELSE LET known == SelectSeq(room.votes.map,
                        LAMBDA e : PlayersHas(room.players, e.voter)
                                   /\ PlayersHas(room.players, e.target))
             to(e) == room.players[PlayerIndex(room.players, e.target)].username
         IN <<[type |-> "vote_update", roomId |-> room.id,
               tally |-> [u \in {to(known[j]) : j \in 1..Len(known)} |->
                            Cardinality({j \in 1..Len(known) : to(known[j]) = u})],
               votes |-> [j \in 1..Len(known) |->
                            [from |-> room.players[PlayerIndex(room.players, known[j].voter)].username,
                             to |-> room.players[PlayerIndex(room.players, known[j].target)].username]],
               totalVoters |-> Len(room.votes.map)]>>

\* a slip: the stage is not looked at
VotingOpenAnyStage(room) == room.phase = "day"

\* the negation of: room.phase !== 'day' || room.dayStage !== 'voting'
VotingOpen(room) == ~(room.phase # "day" \/ room.dayStage # "voting")

handleVote(rms, tmrs, client, target) ==
    LET k == findBySocket(rms, client)
    IN IF k = 0 THEN Dropped(rms, tmrs)
       ELSE IF ~VotingOpen(rms[k]) THEN Dropped(rms, tmrs)
       ELSE IF ~rms[k].players[PlayerIndex(rms[k].players, client)].alive
            THEN Dropped(rms, tmrs)
       ELSE LET t == FindTarget(rms[k].players, target)
            IN IF t = 0 THEN Dropped(rms, tmrs)
               ELSE IF rms[k].players[t].socketId = client THEN Dropped(rms, tmrs)
               ELSE LET room1 == VotingServiceVote(rms[k], client, rms[k].players[t].socketId)
                    IN Result(SetRoom(rms, k, room1), tmrs, emitVoteState(room1))

----------------------------------------------------------------------------
(* The state machine *)

Init ==
    /\ rooms = <<>>
    /\ timers = {}
    /\ emitted = <<>>
    /\ cleared = {}

RECURSIVE TotalMembers(_)
TotalMembers(rms) ==
    IF rms = <<>> THEN 0
    ELSE Len(rms[1].players) + TotalMembers(Tail(rms))

Started(rms) == {k \in 1..Len(rms) : rms[k].phase # "lobby"}

\* The outcome res of a handler or callback becomes the state; fired is the
\* timer whose callback ran, if any.  A request that is dropped changes nothing
\* and sends nothing: `emitted` and `cleared` keep what the last handler that did
\* something sent and cancelled.
Commit(res, fired) ==
    /\ rooms' = res.rooms
    /\ timers' = res.timers
    /\ emitted' = IF res = Dropped(rooms, timers) THEN emitted ELSE res.emitted
    /\ cleared' = IF res = Dropped(rooms, timers) THEN cleared
                  ELSE (timers \ fired) \ res.timers

Apply(res, fired) ==
    /\ TotalMembers(res.rooms) <= MaxMembers
    /\ Started(res.rooms) # {} => Len(res.rooms) <= MaxRoomsInGame
    /\ Commit(res, fired)

CreateRoom ==
    \E client \in Sockets, username \in Names :
        \E roomId \in FreeRoomIds(rooms) :
            Apply(handleCreateRoom(rooms, timers, client, username, roomId), {})

JoinRoom ==
    \E client \in Sockets, roomId \in RoomIds, username \in Names :
        Apply(handleJoinRoom(rooms, timers, client, roomId, username), {})

LeaveRoom ==
    \E client \in Sockets :
        Apply(handleLeaveRoom(rooms, timers, client), {})

\* the shuffle is drawn by assignRoles, which only an accepted start reaches
StartGame ==
    \E client \in Sockets :
        LET k == findBySocket(rooms, client)
            n == IF k # 0 /\ rooms[k].phase = "lobby" /\ rooms[k].hostSocketId = client
                 THEN Len(rooms[k].players) ELSE 0
        IN \E shuffle \in Shuffles(n) :
               Apply(handleStartGame(rooms, timers, client, shuffle), {})

Vote ==
    \E client \in Sockets, target \in Names :
        Apply(handleVote(rooms, timers, client, target), {})

\* a pending timer fires: it stops being pending and its callback runs
DayStageTimerFires ==
    \E t \in timers :
        /\ t.kind = "dayStage"
        /\ LET k == RoomManagerGet(rooms, t.room)
           IN Apply(DayStageTimerCallback(rooms, timers \ {t}, k), {t})

PhaseTimerFires ==
    \E t \in timers :
        /\ t.kind = "phase"
        /\ LET k == RoomManagerGet(rooms, t.room)
           IN Apply(PhaseTimerCallback(rooms, timers \ {t}, k, t.phase), {t})

Next ==
    \/ CreateRoom
    \/ JoinRoom
    \/ LeaveRoom
    \/ StartGame
    \/ Vote
    \/ DayStageTimerFires
    \/ PhaseTimerFires

Spec == Init /\ [][Next]_vars

----------------------------------------------------------------------------
(* One room from its creation by socket 1: the members come and go in the
   lobby.  The creator is known, so the join order of the members is too. *)

InitLobby ==
    \E username \in Names, roomId \in FreeRoomIds(<<>>) :
        LET res == handleCreateRoom(<<>>, {}, 1, username, roomId)
        IN /\ rooms = res.rooms
           /\ timers = res.timers
           /\ emitted = res.emitted
           /\ cleared = {}

LobbyJoin ==
    \E client \in Sockets, roomId \in RoomIds, username \in Names :
        Commit(handleJoinRoom(rooms, timers, client, roomId, username), {})

LobbyLeave ==
    \E client \in Sockets :
        Commit(handleLeaveRoom(rooms, timers, client), {})

NextLobby ==
    \/ LobbyJoin
    \/ LobbyLeave

SpecLobby == InitLobby /\ [][NextLobby]_vars

----------------------------------------------------------------------------
(* One game: a room that socket 1 created and sockets 2..n joined, each under
   its own name, is started, voted in and driven by its timers. *)

\* the state after create_room by socket 1 and join_room by sockets 2..n
RECURSIVE LobbyOf(_, _)
LobbyOf(n, roomId) ==
    IF n = 1 THEN handleCreateRoom(<<>>, {}, n, n, roomId)
    ELSE handleJoinRoom(LobbyOf(n - 1, roomId).rooms, {}, n, roomId, n)

InitGame ==
    \E n \in GameSockets, roomId \in FreeRoomIds(<<>>) :
        /\ rooms = LobbyOf(n, roomId).rooms
        /\ timers = LobbyOf(n, roomId).timers
        /\ emitted = LobbyOf(n, roomId).emitted
        /\ cleared = {}

\* the draws explored: the order of joining and its reverse
GameShuffles(n) == {[j \in 1..n |-> j], [j \in 1..n |-> n + 1 - j]}

ApplyGame(res, fired) ==
    /\ \A k \in 1..Len(res.rooms) : Len(res.rooms[k].votes.map) <= MaxVotes
    /\ Commit(res, fired)

GameStart ==
    \E client \in GameSockets :
        LET k == findBySocket(rooms, client)
            n == IF k # 0 /\ rooms[k].phase = "lobby" /\ rooms[k].hostSocketId = client
                 THEN Len(rooms[k].players) ELSE 0
        IN \E shuffle \in GameShuffles(n) :
               ApplyGame(handleStartGame(rooms, timers, client, shuffle), {})

GameVote ==
    \E client \in GameSockets, target \in GameSockets :
        ApplyGame(handleVote(rooms, timers, client, target), {})

GameDayStageTimerFires ==
    \E t \in timers :
        /\ t.kind = "dayStage"
        /\ LET k == RoomManagerGet(rooms, t.room)
           IN ApplyGame(DayStageTimerCallback(rooms, timers \ {t}, k), {t})

GamePhaseTimerFires ==
    \E t \in timers :
        /\ t.kind = "phase"
        /\ LET k == RoomManagerGet(rooms, t.room)
           IN ApplyGame(PhaseTimerCallback(rooms, timers \ {t}, k, t.phase), {t})

NextGame ==
    \/ GameStart
    \/ GameVote
    \/ GameDayStageTimerFires
    \/ GamePhaseTimerFires

SpecGame == InitGame /\ [][NextGame]_vars

\* a pending timer belongs to a room of the registry, which holds its handle
TimersOwned ==
    \A t \in timers :
        LET k == RoomManagerGet(rooms, t.room)
        IN /\ k # 0
           /\ (t.kind = "phase" => rooms[k].timer = t.id /\ rooms[k].phase = t.phase)
           /\ (t.kind = "dayStage" => rooms[k].dayStageTimer = t.id)

----------------------------------------------------------------------------
(* Vocabulary of the properties *)

InRegistry(rms, id) == RoomManagerGet(rms, id) # 0

RoomOf(rms, id) == rms[RoomManagerGet(rms, id)]

Members(room) == {room.players[j].socketId : j \in 1..Len(room.players)}

PlayerOf(room, socketId) == room.players[PlayerIndex(room.players, socketId)]

AliveWithRole(room, roles) ==
    {j \in 1..Len(room.players) : room.players[j].alive /\ room.players[j].role \in roles}

TownRoles == {"detective", "doctor", "citizen", Undefined}

CountRole(room, role) ==
    Cardinality({j \in 1..Len(room.players) : room.players[j].role = role})

VotesFor(room, id) ==
    Cardinality({j \in 1..Len(room.votes.map) : room.votes.map[j].target = id})

Targets(room) == {room.votes.map[j].target : j \in 1..Len(room.votes.map)}

\* id is the one target with the strictly highest number of votes
UniqueTop(room, id) ==
    /\ room.votes.present
    /\ id \in Targets(room)
    /\ \A other \in Targets(room) \ {id} : VotesFor(room, other) < VotesFor(room, id)

\* the room's day ends in this step: its phase timer has fired
DayResolves(id) ==
    /\ InRegistry(rooms, id) /\ InRegistry(rooms', id)
    /\ RoomOf(rooms, id).phase = "day"
    /\ RoomOf(rooms', id).phase # "day"

BecomesEnded(id) ==
    /\ InRegistry(rooms, id) /\ InRegistry(rooms', id)
    /\ RoomOf(rooms, id).phase # "ended"
    /\ RoomOf(rooms', id).phase = "ended"

----------------------------------------------------------------------------
\* C1: immediately after a room becomes ended, by the phase timer's win check
\* or by PhaseService.end, no player of the room has a role.
C1_RolesClearedOnEnd ==
    [][\A id \in RoomIds :
          BecomesEnded(id) =>
              \A j \in 1..Len(RoomOf(rooms', id).players) :
                  RoomOf(rooms', id).players[j].role = Undefined]_vars

\* C2: while a room is ended neither of its timers is pending and both handles
\* are cleared.
C2_EndedTimersCleared ==
    \A k \in 1..Len(rooms) :
        rooms[k].phase = "ended" =>
            /\ rooms[k].timer = NoTimer
            /\ rooms[k].dayStageTimer = NoTimer
            /\ ~\E t \in timers : t.room = rooms[k].id

\* C3: ended is terminal: a step taken while a room is ended (a timer firing, a
\* join, a start, a vote, a leave that keeps the room) leaves its phase ended and
\* its day stage, winner, ledger and every remaining player's alive flag as they were.
C3_EndedIsTerminal ==
    [][\A id \in RoomIds :
          (/\ InRegistry(rooms, id) /\ InRegistry(rooms', id)
           /\ RoomOf(rooms, id).phase = "ended")
          => /\ RoomOf(rooms', id).phase = "ended"
             /\ RoomOf(rooms', id).dayStage = RoomOf(rooms, id).dayStage
             /\ RoomOf(rooms', id).winner = RoomOf(rooms, id).winner
             /\ RoomOf(rooms', id).votes = RoomOf(rooms, id).votes
             /\ \A s \in Members(RoomOf(rooms', id)) :
                    /\ s \in Members(RoomOf(rooms, id))
                    /\ PlayerOf(RoomOf(rooms', id), s).alive
                         = PlayerOf(RoomOf(rooms, id), s).alive]_vars

\* the day-stage sub-timer of an ended room has fired after the game ended: the
\* stage is still discussion and the handle is that of a timer no longer pending
C3_Witness ==
    \E k \in 1..Len(rooms) :
        /\ rooms[k].phase = "ended"
        /\ rooms[k].dayStage = "discussion"
        /\ rooms[k].dayStageTimer # NoTimer
        /\ ~\E t \in timers : t.id = rooms[k].dayStageTimer

\* C4: every room-state notification shows a day stage exactly when it shows
\* phase day.
C4_ObservedStageIffDay ==
    \A j \in 1..Len(emitted) :
        emitted[j].type = "room_state" =>
            ((emitted[j].dayStage # Undefined) <=> (emitted[j].phase = "day"))

\* C5: a room has a vote ledger exactly when its day stage is voting.
C5_LedgerIffVoting ==
    \A k \in 1..Len(rooms) :
        rooms[k].votes.present <=> (rooms[k].dayStage = "voting")

\* a day in its voting stage with two votes in the ledger, after a member left
C5_Witness ==
    \E k \in 1..Len(rooms) :
        /\ rooms[k].phase = "day"
        /\ rooms[k].dayStage = "voting"
        /\ rooms[k].votes.present
        /\ Len(rooms[k].votes.map) = 2
        /\ Len(rooms[k].players) = 2

\* C6: the role draw of a start gives max(1, N div 4) mafia, one detective iff
\* N >= 4, one doctor iff N >= 5, citizen to the rest, and leaves all alive.
C6_RoleDrawCounts ==
    [][\A id \in RoomIds :
          (/\ InRegistry(rooms, id) /\ InRegistry(rooms', id)
           /\ RoomOf(rooms, id).phase = "lobby"
           /\ RoomOf(rooms', id).phase = "night")
          => LET room == RoomOf(rooms', id)
                 n == Len(room.players)
             IN /\ CountRole(room, "mafia") = Max(1, n \div 4)
                /\ CountRole(room, "detective") = (IF n >= 4 THEN 1 ELSE 0)
                /\ CountRole(room, "doctor") = (IF n >= 5 THEN 1 ELSE 0)
                /\ CountRole(room, "citizen")
                     = n - CountRole(room, "mafia") - CountRole(room, "detective")
                         - CountRole(room, "doctor")
                /\ \A j \in 1..n : room.players[j].alive]_vars

C9_WinByAliveCounts ==
    \A k \in 1..Len(rooms) :
        LET mafia == Cardinality(AliveWithRole(rooms[k], {"mafia"}))
            town == Cardinality(AliveWithRole(rooms[k], TownRoles))
        IN /\ mafia = 0 => WinServiceCheck(rooms[k]) = "town"
           /\ (mafia >= 1 /\ mafia >= town) => WinServiceCheck(rooms[k]) = "mafia"
           /\ (mafia >= 1 /\ mafia < town) => WinServiceCheck(rooms[k]) = "null"

\* a game the phase timer ended for mafia at parity: one mafia and one town alive
C9_Witness ==
    \E k \in 1..Len(rooms) :
        /\ rooms[k].phase = "ended"
        /\ rooms[k].winner = "mafia"
        /\ Cardinality(AliveWithRole(rooms[k], {"mafia"})) = 1
        /\ Cardinality(AliveWithRole(rooms[k], TownRoles)) = 1

\* C10: a socket is a member of at most one room of the registry.
C10_OneRoomPerSocket ==
    \A s \in Sockets :
        Cardinality({k \in 1..Len(rooms) : PlayersHas(rooms[k].players, s)}) <= 1

\* the room's entry disappears from the registry in this step
Removed(id) == InRegistry(rooms, id) /\ ~InRegistry(rooms', id)

\* the last handler sent the system message text
Sent(text) ==
    \E j \in 1..Len(emitted) :
        emitted[j].type = "system_message" /\ emitted[j].text = text

\* C11: the host identity of every room of the registry is the identity of one
\* of its current members.
C11_HostIsMember ==
    \A k \in 1..Len(rooms) : rooms[k].hostSocketId \in Members(rooms[k])

\* a member has just left a game in its night and two members remain, one of
\* them the host
C11_Witness ==
    \E k \in 1..Len(rooms) :
        /\ Sent("left the lobby")
        /\ rooms[k].phase = "night"
        /\ Len(rooms[k].players) = 2
        /\ rooms[k].hostSocketId \in Members(rooms[k])

\* C13: every room of the registry has a member, and a room leaves the registry
\* only in the step in which its one remaining member leaves it.
C13_RemovedIffEmpty ==
    [][/\ \A k \in 1..Len(rooms') : Len(rooms'[k].players) >= 1
       /\ \A id \in RoomIds :
             Removed(id) =>
                 /\ Len(RoomOf(rooms, id).players) = 1
                 /\ handleLeaveRoom(rooms, timers,
                                    RoomOf(rooms, id).players[1].socketId).rooms = rooms'
       /\ \A id \in RoomIds :
             (InRegistry(rooms, id) /\ RoomOf(rooms, id).phase = "ended"
              /\ Len(RoomOf(rooms, id).players) > 1)
             => InRegistry(rooms', id)]_vars

\* the one member of a game in its night has left: the registry is empty and the
\* night's phase timer was cancelled
C13_Witness ==
    /\ rooms = <<>>
    /\ \E t \in cleared : t.kind = "phase" /\ t.phase = "night"

\* C14: no pending timer is that of a room the registry does not hold: the step
\* that removes a room leaves none of its timers pending, whatever its phase and
\* stage were, so no callback runs for a removed room.
C14_NoTimerOfRemovedRoom ==
    [][/\ \A t \in timers' : InRegistry(rooms', t.room)
       /\ \A id \in RoomIds :
             Removed(id) => ~\E t \in timers' : t.room = id]_vars

\* the last member has left a day in its discussion stage: the registry is empty,
\* the phase timer and the sub-timer were both cancelled and nothing is pending
C14_Witness ==
    /\ rooms = <<>>
    /\ timers = {}
    /\ \E t \in cleared : t.kind = "phase" /\ t.phase = "day"
    /\ \E t \in cleared : t.kind = "dayStage"

\* C16: once a room has left the lobby its member set gains no identity: every
\* member after a step was a member before it.
C16_NoJoinAfterStart ==
    [][\A id \in RoomIds :
          (/\ InRegistry(rooms, id) /\ InRegistry(rooms', id)
           /\ RoomOf(rooms, id).phase # "lobby")
          => Members(RoomOf(rooms', id)) \subseteq Members(RoomOf(rooms, id))]_vars

\* a game in its night with two members while a socket is in no room: its
\* join_room for this room is within the bounds and is dropped
C16_Witness ==
    \E k \in 1..Len(rooms) : \E s \in Sockets :
        /\ rooms[k].phase = "night"
        /\ Len(rooms[k].players) = 2
        /\ findBySocket(rooms, s) = 0
        /\ \E name \in Names :
               handleJoinRoom(rooms, timers, s, rooms[k].id, name) = Dropped(rooms, timers)

\* C20: the phase of a room is lobby exactly when none of its players has a role.
C20_LobbyIffNoRoles ==
    \A k \in 1..Len(rooms) :
        (rooms[k].phase = "lobby")
            <=> (\A j \in 1..Len(rooms[k].players) : rooms[k].players[j].role = Undefined)

\* a game the phase timer ended, a member of which has left since: the players
\* that remain hold their roles
C20_Witness ==
    \E k \in 1..Len(rooms) :
        /\ rooms[k].phase = "ended"
        /\ Sent("left the lobby")
        /\ \E j \in 1..Len(rooms[k].players) : rooms[k].players[j].role # Undefined

\* place of a member in the room's players, which are kept in insertion order
Pos(room, socketId) == PlayerIndex(room.players, socketId)

\* C12: the players of a room stay in the order in which they joined (a step
\* keeps the order of those who stay and puts a newcomer last); when the host
\* leaves, the host becomes the remaining member that is first in that order;
\* while the host stays, the host is unchanged.
C12_HostPassesInJoinOrder ==
    [][\A id \in RoomIds :
          (InRegistry(rooms, id) /\ InRegistry(rooms', id)) =>
              LET before == RoomOf(rooms, id)
                  after == RoomOf(rooms', id)
                  stay == Members(before) \cap Members(after)
              IN /\ \A s, t \in stay :
                        Pos(before, s) < Pos(before, t) <=> Pos(after, s) < Pos(after, t)
                 /\ \A s \in Members(after) \ Members(before) :
                        \A t \in stay : Pos(after, t) < Pos(after, s)
                 /\ before.hostSocketId \notin Members(after) =>
                        /\ after.hostSocketId \in stay
                        /\ \A s \in stay :
                               Pos(before, after.hostSocketId) <= Pos(before, s)
                 /\ before.hostSocketId \in Members(after) =>
                        after.hostSocketId = before.hostSocketId]_vars

\* socket 1, who created the room as its host, is its last member of three: it
\* left as host and joined again, and the host is the first of the other two
C12_Witness ==
    \E k \in 1..Len(rooms) :
        /\ Len(rooms[k].players) = 3
        /\ rooms[k].players[3].socketId = 1
        /\ rooms[k].hostSocketId = rooms[k].players[1].socketId

\* C19: PhaseService.end on a room that is already ended changes none of its
\* phase, winner, players' roles and alive flags, day stage and ledger.
C19_EndIsNoOpOnEnded ==
    \A k \in 1..Len(rooms) :
        rooms[k].phase = "ended" =>
            \A winner \in {"town", "mafia"} :
                LET after == PhaseServiceEnd(rooms[k], timers, winner).room
                IN /\ after.phase = rooms[k].phase
                   /\ after.winner = rooms[k].winner
                   /\ after.players = rooms[k].players
                   /\ after.dayStage = rooms[k].dayStage
                   /\ after.votes = rooms[k].votes

\* the requests: every socket and every name of either specification
Clients == Sockets \cup GameSockets

Usernames == Names \cup GameSockets

\* places in the registry of the rooms the socket is a member of
RoomsOfSocket(s) == {k \in 1..Len(rooms) : s \in Members(rooms[k])}

\* the shuffles assignRoles can draw for a start_game of this socket: those of
\* its room while in the lobby, none (the empty one) where no draw is made
Draws(s) ==
    IF findBySocket(rooms, s) # 0 /\ rooms[findBySocket(rooms, s)].phase = "lobby"
    THEN Shuffles(Len(rooms[findBySocket(rooms, s)].players))
    ELSE {<<>>}

\* C15: a start_game that is not dropped comes from the host of a room in the
\* lobby; it leaves every member with a role and the room in phase night with
\* the night's phase timer pending and held by the room; five members get one
\* mafia, one detective, one doctor and two citizens.
C15_StartByHostInLobby ==
    \A client \in Clients : \A shuffle \in Draws(client) :
        LET res == handleStartGame(rooms, timers, client, shuffle)
        IN res # Dropped(rooms, timers) =>
              \E k \in RoomsOfSocket(client) :
                  /\ rooms[k].hostSocketId = client
                  /\ rooms[k].phase = "lobby"
                  /\ res.rooms = [rooms EXCEPT ![k] = res.rooms[k]]
                  /\ res.rooms[k].phase = "night"
                  /\ Members(res.rooms[k]) = Members(rooms[k])
                  /\ \A j \in 1..Len(res.rooms[k].players) :
                         res.rooms[k].players[j].role # Undefined
                  /\ \E t \in res.timers :
                         /\ t.room = rooms[k].id /\ t.kind = "phase"
                         /\ t.phase = "night" /\ t.delay = NightMs
                         /\ t.id = res.rooms[k].timer
                  /\ Len(rooms[k].players) = 5 =>
                         /\ CountRole(res.rooms[k], "mafia") = 1
                         /\ CountRole(res.rooms[k], "detective") = 1
                         /\ CountRole(res.rooms[k], "doctor") = 1
                         /\ CountRole(res.rooms[k], "citizen") = 2

\* the host has just started a game of five: the room is in its night, the
\* night's timer is pending and the roles are 1 mafia, 1 detective, 1 doctor and
\* 2 citizens
C15_Witness ==
    \E k \in 1..Len(rooms) :
        /\ Sent("started the game")
        /\ rooms[k].phase = "night"
        /\ Len(rooms[k].players) = 5
        /\ \E t \in timers : t.id = rooms[k].timer /\ t.phase = "night"
        /\ CountRole(rooms[k], "mafia") = 1
        /\ CountRole(rooms[k], "detective") = 1
        /\ CountRole(rooms[k], "doctor") = 1
        /\ CountRole(rooms[k], "citizen") = 2

\* C17: a vote_player that changes anything comes from an alive member of a
\* room in phase day and stage voting and names an alive member other than the
\* voter; it changes the ledger of that room and nothing else, and in the ledger
\* the voter then has one entry, for that target, the other entries being as
\* they were.
C17_VoteSetsOwnEntry ==
    \A client \in Clients, target \in Usernames :
        LET res == handleVote(rooms, timers, client, target)
        IN (res.rooms # rooms \/ res.timers # timers) =>
              \E k \in RoomsOfSocket(client) :
                  LET old == rooms[k].votes.map
                      new == res.rooms[k].votes.map
                      mine == {j \in 1..Len(new) : new[j].voter = client}
                  IN /\ rooms[k].phase = "day"
                     /\ rooms[k].dayStage = "voting"
                     /\ PlayerOf(rooms[k], client).alive
                     /\ res.timers = timers
                     /\ res.rooms = [rooms EXCEPT ![k].votes = res.rooms[k].votes]
                     /\ res.rooms[k].votes.present
                     /\ Cardinality(mine) = 1
                     /\ \A j \in mine :
                            /\ new[j].target # client
                            /\ new[j].target \in Members(rooms[k])
                            /\ PlayerOf(rooms[k], new[j].target).alive
                            /\ PlayerOf(rooms[k], new[j].target).username = target
                     /\ SelectSeq(new, LAMBDA e : e.voter # client)
                          = SelectSeq(old, LAMBDA e : e.voter # client)

\* a vote has just been taken in a voting stage in which one member is dead: the
\* ledger has two entries
C17_Witness ==
    \E k \in 1..Len(rooms) :
        /\ Len(emitted) = 1 /\ emitted[1].type = "vote_update"
        /\ rooms[k].phase = "day" /\ rooms[k].dayStage = "voting"
        /\ \E j \in 1..Len(rooms[k].players) : ~rooms[k].players[j].alive
        /\ Len(rooms[k].votes.map) = 2

\* the request cannot be granted in any room the socket is a member of
CannotStart(client) ==
    \A k \in RoomsOfSocket(client) :
        rooms[k].hostSocketId # client \/ rooms[k].phase # "lobby"

CannotVote(client, target) ==
    \A k \in RoomsOfSocket(client) :
        \/ rooms[k].phase # "day"
        \/ rooms[k].dayStage # "voting"
        \/ ~PlayerOf(rooms[k], client).alive
        \/ ~\E j \in 1..Len(rooms[k].players) :
               /\ rooms[k].players[j].username = target
               /\ rooms[k].players[j].alive
               /\ rooms[k].players[j].socketId # client

\* C18: a join_room for an unknown room or a room not in the lobby, a start_game
\* by a socket that is not the host of a room in the lobby, a vote_player outside
\* day/voting, by a dead voter or at no alive member other than the voter, and a
\* leave_room by a socket in no room change neither the registry nor the timers
\* and send nothing.
C18_RejectedIsDropped ==
    /\ \A client \in Clients, roomId \in RoomIds, username \in Usernames :
           (~InRegistry(rooms, roomId) \/ RoomOf(rooms, roomId).phase # "lobby")
           => handleJoinRoom(rooms, timers, client, roomId, username)
                = Dropped(rooms, timers)
    /\ \A client \in Clients : \A shuffle \in Draws(client) :
           CannotStart(client)
           => handleStartGame(rooms, timers, client, shuffle) = Dropped(rooms, timers)
    /\ \A client \in Clients, target \in Usernames :
           CannotVote(client, target)
           => handleVote(rooms, timers, client, target) = Dropped(rooms, timers)
    /\ \A client \in Clients :
           RoomsOfSocket(client) = {}
           => handleLeaveRoom(rooms, timers, client) = Dropped(rooms, timers)

\* a voting stage of a game of four with one member dead and a socket in no room:
\* a vote by the dead member, a vote at the dead member, a vote at oneself, a
\* start by the host, a join and a leave by the outsider are all to be rejected
C18_Witness ==
    \E k \in 1..Len(rooms) : \E d, v \in Members(rooms[k]) : \E s \in GameSockets :
        /\ rooms[k].phase = "day" /\ rooms[k].dayStage = "voting"
        /\ Len(rooms[k].players) = 4
        /\ ~PlayerOf(rooms[k], d).alive /\ PlayerOf(rooms[k], v).alive
        /\ RoomsOfSocket(s) = {}
        /\ CannotVote(d, PlayerOf(rooms[k], v).username)
        /\ CannotVote(v, PlayerOf(rooms[k], d).username)
        /\ CannotVote(v, PlayerOf(rooms[k], v).username)
        /\ CannotStart(rooms[k].hostSocketId)

\* C21: when a room that keeps members becomes ended, a room-state notification
\* of that step shows phase ended and the room's winner.
C21_EndedStateShowsWinner ==
    [][\A id \in RoomIds :
          BecomesEnded(id) =>
              \E j \in 1..Len(emitted') :
                  /\ emitted'[j].type = "room_state"
                  /\ emitted'[j].roomId = id
                  /\ emitted'[j].phase = "ended"
                  /\ "winner" \in DOMAIN emitted'[j]
                  /\ emitted'[j].winner = RoomOf(rooms', id).winner]_vars

\* pending timers of a room, by kind
Pending(id, kind) == {t \in timers : t.room = id /\ t.kind = kind}

\* C22: a room has at most one pending phase timer and at most one pending
\* day-stage sub-timer, and every pending timer was armed in the phase the room
\* is in: none armed in an earlier phase is left to fire in a later one.
C22_OneTimerPairOfThePhase ==
    \A k \in 1..Len(rooms) :
        /\ Cardinality(Pending(rooms[k].id, "phase")) <= 1
        /\ Cardinality(Pending(rooms[k].id, "dayStage")) <= 1
        /\ \A t \in timers : t.room = rooms[k].id => t.phase = rooms[k].phase

\* the win table on the alive counts of the room's players
Faction(room) ==
    LET mafia == Cardinality(AliveWithRole(room, {"mafia"}))
        town == Cardinality(AliveWithRole(room, TownRoles))
    IN IF mafia = 0 THEN "town"
       ELSE IF mafia >= town THEN "mafia"
       ELSE "null"

\* the phase timer t of the room has fired in this step
PhaseTimerFired(id, t) ==
    /\ t \in timers /\ t.kind = "phase" /\ t.room = id
    /\ t \notin timers' /\ t \notin cleared'
    /\ InRegistry(rooms, id) /\ InRegistry(rooms', id)

\* C23: when a phase timer fires, the win table is read on the players the room
\* then has (those left after a night, those left and not eliminated after a
\* day): with a faction the room becomes ended with that faction as winner, and
\* only with none does it enter the next phase.
C23_WinCheckedAtEveryFiring ==
    [][\A id \in RoomIds : \A t \in timers :
          PhaseTimerFired(id, t) =>
              LET before == RoomOf(rooms, id)
                  after == RoomOf(rooms', id)
              IN /\ t.phase = "night" => after.players = before.players
                 /\ Members(after) = Members(before)
                 /\ Faction(after) # "null" =>
                        after.phase = "ended" /\ after.winner = Faction(after)
                 /\ Faction(after) = "null" =>
                        /\ after.phase = (IF t.phase = "night" THEN "day" ELSE "night")
                        /\ after.winner = before.winner]_vars

\* a game of three in which the detective left during a phase: at the next
\* firing the mafia and the doctor were at parity and the room is ended for mafia
C23_Witness ==
    \E k \in 1..Len(rooms) :
        /\ rooms[k].phase = "ended"
        /\ rooms[k].winner = "mafia"
        /\ Len(rooms[k].players) = 2
        /\ Cardinality(AliveWithRole(rooms[k], {"mafia"})) = 1
        /\ Cardinality(AliveWithRole(rooms[k], {"doctor"})) = 1

\* the room enters stage voting in this step
VotingOpens(id) ==
    /\ InRegistry(rooms, id) /\ InRegistry(rooms', id)
    /\ RoomOf(rooms, id).dayStage # "voting"
    /\ RoomOf(rooms', id).dayStage = "voting"

C25_DiscussionShorterThanDay ==
    \A k \in 1..Len(rooms) :
        \A t \in Pending(rooms[k].id, "dayStage"), u \in Pending(rooms[k].id, "phase") :
            u.phase = "day" => t.delay < u.delay

====
